---- MODULE Spec2Model ----
(***************************************************************************)
(* Model of app.py: a Flask application with five routes, one process-wide *)
(* integer `counter` and one static list `cards`.                          *)
(*                                                                         *)
(* Requests are served by concurrent request threads of one process (the   *)
(* development server started by app.run is threaded).  A handler is       *)
(* modelled at the granularity of its accesses to shared state: the        *)
(* statement `counter += 1` is LOAD_GLOBAL counter / add 1 / STORE_GLOBAL  *)
(* counter, and the f-string of the return statement loads the global      *)
(* again, so count_views is three steps; every other handler touches       *)
(* shared state (or the wall clock) at most once and is one step.          *)
(***************************************************************************)
EXTENDS Integers, Sequences, FiniteSets, TLC

\* ---------------------------------------------------------------- bounds
\* Number of request threads that can be in flight at once.
NumThreads == 2
\* Cap on the number of count_views requests accepted in one behaviour.
MaxViews == 3
\* Last whole second the modelled wall clock reaches.
MaxSec == 1

Threads == 1..NumThreads

\* Path segments tried for /hello/<name> (non-empty, no slash: what the
\* default string converter of the route lets through).
Names == {"World", "<b>"}

\* Microsecond fields the wall clock is sampled at.
UsecSamples == {0, 999999}

\* A wall-clock reading: <<second, microsecond>>.
ClockValues == (0..MaxSec) \X UsecSamples

ZeroTime == <<0, 0>>

\* a is not later than b
TimeLeq(a, b) == a[1] < b[1] \/ (a[1] = b[1] /\ a[2] <= b[2])

VARIABLES
    counter,    \* the module global `counter`
    cards,      \* the module global `cards`
    clock,      \* the wall clock datetime.now() reads
    pc,         \* pc[t]: where request thread t is
    route,      \* route[t]: the view function thread t is running
    arg,        \* arg[t]: the <name> path segment of the request
    tmp,        \* tmp[t]: value of `counter` loaded by counter += 1
    ts,         \* ts[t]: the datetime that datetime.now() returned
    resp,       \* resp[t]: the value the view function returned
    recv,       \* recv[t]: clock reading when the /date request arrived
    started,    \* count_views requests dispatched so far
    completed   \* count_views responses sent so far

vars == <<counter, cards, clock, pc, route, arg, tmp, ts, resp, recv,
          started, completed>>

\* ---------------------------------------------------------------- values
NoResp == [text |-> "", template |-> "", context |-> <<>>]

\* A plain-text response body.
Text(s) == [text |-> s, template |-> "", context |-> <<>>]

\* render_template(name, cards=c): the template and its context; the
\* rendering itself is Jinja's.
render_template(name, c) == [text |-> "", template |-> name, context |-> c]

CardList == << [question |-> "Hola", answer |-> "Hello"],
               [question |-> "Merci", answer |-> "Thanks"],
               [question |-> "Ciao", answer |-> "Bye"] >>

RECURSIVE ZeroPad(_, _)
\* s left-padded with "0" to width w
ZeroPad(s, w) == IF Len(s) >= w THEN s ELSE ZeroPad("0" \o s, w)

\* str(datetime): isoformat(sep=" "), which leaves the fraction out when
\* the microsecond field is 0.  The process is taken to start at
\* 1970-01-01 00:00:00 local time.
DateStr(d) ==
    "1970-01-01 00:00:" \o ZeroPad(ToString(d[1]), 2)
        \o (IF d[2] = 0 THEN "" ELSE "." \o ZeroPad(ToString(d[2]), 6))

AboutText == "This is a simple mini project using Flask basics."

\* Variant: a shortened wording of the about text.
AboutTextDraft == "This is a simple mini project using Flask."

DateText(d) == "Current server time: " \o DateStr(d)

ViewsText(n) == "This page was viewed " \o ToString(n) \o " times."

\* Variant: the greeting with the name's case normalised.
GreetingCapitalized(n) ==
    "Hello " \o (IF n = "World" THEN "world" ELSE n) \o "!"

Greeting(n) == "Hello " \o n \o "!"

Routes == {"home", "about", "date", "count_views", "name"}

\* First program point of each view function.
Entry(r) == IF r = "count_views" THEN "cv_load" ELSE r

InProgress(t) == route[t] = "count_views" /\ pc[t] # "idle"

\* ---------------------------------------------------------------- Init
Init ==
    /\ counter = 0
    /\ cards = CardList
    /\ clock = ZeroTime
    /\ pc = [t \in Threads |-> "idle"]
    /\ route = [t \in Threads |-> "none"]
    /\ arg = [t \in Threads |-> ""]
    /\ tmp = [t \in Threads |-> 0]
    /\ ts = [t \in Threads |-> ZeroTime]
    /\ resp = [t \in Threads |-> NoResp]
    /\ recv = [t \in Threads |-> ZeroTime]
    /\ started = 0
    /\ completed = 0

\* ---------------------------------------------------------------- actions
\* The URL map hands a request to its view function on a free thread.
Dispatch(t, r, n) ==
    /\ pc[t] = "idle"
    /\ r = "count_views" => started < MaxViews
    /\ pc' = [pc EXCEPT ![t] = Entry(r)]
    /\ route' = [route EXCEPT ![t] = r]
    /\ arg' = [arg EXCEPT ![t] = n]
    /\ recv' = [recv EXCEPT ![t] = IF r = "date" THEN clock ELSE ZeroTime]
    /\ started' = IF r = "count_views" THEN started + 1 ELSE started
    /\ UNCHANGED <<counter, cards, clock, tmp, ts, resp, completed>>

\* Requests to count_views arrive one after another, never overlapping.
DispatchSerial(t, r, n) ==
    /\ r = "count_views" => \A u \in Threads : ~InProgress(u)
    /\ Dispatch(t, r, n)

\* Variant of home: the cards handed over newest first.
home_reversed(t) ==
    /\ pc[t] = "home"
    /\ resp' = [resp EXCEPT ![t] =
                  render_template("home.html",
                      [i \in 1..Len(cards) |-> cards[Len(cards) + 1 - i]])]
    /\ pc' = [pc EXCEPT ![t] = "done"]
    /\ UNCHANGED <<counter, cards, clock, route, arg, tmp, ts, recv,
                   started, completed>>

home(t) ==
    /\ pc[t] = "home"
    /\ resp' = [resp EXCEPT ![t] = render_template("home.html", cards)]
    /\ pc' = [pc EXCEPT ![t] = "done"]
    /\ UNCHANGED <<counter, cards, clock, route, arg, tmp, ts, recv,
                   started, completed>>

\* Variant of about: the view also counts as a visit.
about_counting(t) ==
    /\ pc[t] = "about"
    /\ counter' = counter + 1
    /\ resp' = [resp EXCEPT ![t] = Text(AboutText)]
    /\ pc' = [pc EXCEPT ![t] = "done"]
    /\ UNCHANGED <<cards, clock, route, arg, tmp, ts, recv,
                   started, completed>>

\* Variant of about: answers with the shortened wording.
about_draft(t) ==
    /\ pc[t] = "about"
    /\ resp' = [resp EXCEPT ![t] = Text(AboutTextDraft)]
    /\ pc' = [pc EXCEPT ![t] = "done"]
    /\ UNCHANGED <<counter, cards, clock, route, arg, tmp, ts, recv,
                   started, completed>>

about(t) ==
    /\ pc[t] = "about"
    /\ resp' = [resp EXCEPT ![t] = Text(AboutText)]
    /\ pc' = [pc EXCEPT ![t] = "done"]
    /\ UNCHANGED <<counter, cards, clock, route, arg, tmp, ts, recv,
                   started, completed>>

\* Variant of date: the timestamp taken once, at import.
date_cached(t) ==
    /\ pc[t] = "date"
    /\ ts' = [ts EXCEPT ![t] = ZeroTime]
    /\ resp' = [resp EXCEPT ![t] = Text(DateText(ZeroTime))]
    /\ pc' = [pc EXCEPT ![t] = "done"]
    /\ UNCHANGED <<counter, cards, clock, route, arg, tmp, recv,
                   started, completed>>

date(t) ==
    /\ pc[t] = "date"
    /\ ts' = [ts EXCEPT ![t] = clock]
    /\ resp' = [resp EXCEPT ![t] = Text(DateText(clock))]
    /\ pc' = [pc EXCEPT ![t] = "done"]
    /\ UNCHANGED <<counter, cards, clock, route, arg, tmp, recv,
                   started, completed>>

\* counter += 1, first half: LOAD_GLOBAL counter
cv_load(t) ==
    /\ pc[t] = "cv_load"
    /\ tmp' = [tmp EXCEPT ![t] = counter]
    /\ pc' = [pc EXCEPT ![t] = "cv_store"]
    /\ UNCHANGED <<counter, cards, clock, route, arg, ts, resp, recv,
                   started, completed>>

\* Variant of cv_store: increments whatever the counter holds now.
cv_store_atomic(t) ==
    /\ pc[t] = "cv_store"
    /\ counter' = counter + 1
    /\ pc' = [pc EXCEPT ![t] = "cv_format"]
    /\ UNCHANGED <<cards, clock, route, arg, tmp, ts, resp, recv,
                   started, completed>>

\* Variant of cv_store: adds 2 to the loaded value.
cv_store_twice(t) ==
    /\ pc[t] = "cv_store"
    /\ counter' = tmp[t] + 2
    /\ pc' = [pc EXCEPT ![t] = "cv_format"]
    /\ UNCHANGED <<cards, clock, route, arg, tmp, ts, resp, recv,
                   started, completed>>

\* counter += 1, second half: add 1 to the loaded value, STORE_GLOBAL counter
cv_store(t) ==
    /\ pc[t] = "cv_store"
    /\ counter' = tmp[t] + 1
    /\ pc' = [pc EXCEPT ![t] = "cv_format"]
    /\ UNCHANGED <<cards, clock, route, arg, tmp, ts, resp, recv,
                   started, completed>>

\* Variant of cv_format: renders the value loaded before the increment.
cv_format_old(t) ==
    /\ pc[t] = "cv_format"
    /\ resp' = [resp EXCEPT ![t] = Text(ViewsText(tmp[t]))]
    /\ pc' = [pc EXCEPT ![t] = "done"]
    /\ UNCHANGED <<counter, cards, clock, route, arg, tmp, ts, recv,
                   started, completed>>

\* return f"This page was viewed {counter} times.": loads the global again
cv_format(t) ==
    /\ pc[t] = "cv_format"
    /\ resp' = [resp EXCEPT ![t] = Text(ViewsText(counter))]
    /\ pc' = [pc EXCEPT ![t] = "done"]
    /\ UNCHANGED <<counter, cards, clock, route, arg, tmp, ts, recv,
                   started, completed>>

name(t) ==
    /\ pc[t] = "name"
    /\ resp' = [resp EXCEPT ![t] = Text(Greeting(arg[t]))]
    /\ pc' = [pc EXCEPT ![t] = "done"]
    /\ UNCHANGED <<counter, cards, clock, route, arg, tmp, ts, recv,
                   started, completed>>

\* The response is sent and the thread's frame is gone.
Respond(t) ==
    /\ pc[t] = "done"
    /\ completed' = IF route[t] = "count_views" THEN completed + 1
                    ELSE completed
    /\ pc' = [pc EXCEPT ![t] = "idle"]
    /\ route' = [route EXCEPT ![t] = "none"]
    /\ arg' = [arg EXCEPT ![t] = ""]
    /\ tmp' = [tmp EXCEPT ![t] = 0]
    /\ ts' = [ts EXCEPT ![t] = ZeroTime]
    /\ resp' = [resp EXCEPT ![t] = NoResp]
    /\ recv' = [recv EXCEPT ![t] = ZeroTime]
    /\ UNCHANGED <<counter, cards, clock, started>>

\* The wall clock moves forward.
Tick ==
    /\ \E c \in ClockValues :
          /\ TimeLeq(clock, c)
          /\ c # clock
          /\ clock' = c
    /\ UNCHANGED <<counter, cards, pc, route, arg, tmp, ts, resp, recv,
                   started, completed>>

Handlers(t) ==
    \/ home(t)
    \/ about(t)
    \/ date(t)
    \/ cv_load(t)
    \/ cv_store(t)
    \/ cv_format(t)
    \/ name(t)
    \/ Respond(t)

Args(r) == IF r = "name" THEN Names ELSE {""}

Next ==
    \/ \E t \in Threads : \E r \in Routes : \E n \in Args(r) :
           Dispatch(t, r, n)
    \/ \E t \in Threads : Handlers(t)
    \/ Tick

NextSerial ==
    \/ \E t \in Threads : \E r \in Routes : \E n \in Args(r) :
           DispatchSerial(t, r, n)
    \/ \E t \in Threads : Handlers(t)
    \/ Tick

\* Concurrent request threads, any interleaving.
Spec == Init /\ [][Next]_vars

\* The same, with count_views requests arriving one after another.
SpecSerial == Init /\ [][NextSerial]_vars

\* ---------------------------------------------------------------- claims
ViewsDone(t) == route[t] = "count_views" /\ pc[t] = "done"

\* C1: when count_views requests do not overlap (SpecSerial), the N-th one
\* answers "This page was viewed N times.", N being the number of
\* count_views requests made so far, this one included.
C1_NthViewRendersN ==
    \A t \in Threads :
        ViewsDone(t) =>
            resp[t] = Text("This page was viewed " \o ToString(started)
                               \o " times.")

\* The third of three non-overlapping count_views requests has answered.
C1_Witness ==
    \E t \in Threads :
        /\ ViewsDone(t)
        /\ started = 3
        /\ completed = 2
        /\ resp[t].text = "This page was viewed 3 times."

\* C2: the increment is atomic: whenever no count_views request is in
\* progress, the counter equals the number of count_views requests completed.
C2_NoLostIncrement ==
    (\A t \in Threads : ~InProgress(t)) => counter = completed

\* C3: the increment is a read-modify-write in two steps: one step reads the
\* counter into the thread and leaves the counter alone, a later step stores
\* the value read plus one, whatever the counter holds by then.
C3_ReadModifyWrite ==
    [][\A t \in Threads :
          /\ (pc[t] = "cv_load" /\ pc'[t] # pc[t]) =>
                 (tmp'[t] = counter /\ counter' = counter)
          /\ (pc[t] = "cv_store" /\ pc'[t] # pc[t]) =>
                 counter' = tmp[t] + 1]_vars

\* Two count_views requests have both completed, none is in progress, and
\* the counter has grown by only 1.
C3_LostUpdate ==
    /\ completed = 2
    /\ \A t \in Threads : ~InProgress(t)
    /\ counter = 1

\* C4: the counter is a non-negative integer and every step leaves it
\* unchanged or raises it by exactly 1.
C4_StepsByOne ==
    [][/\ counter \in Nat
       /\ counter' \in Nat
       /\ (counter' = counter \/ counter' = counter + 1)]_vars

\* C5: every step of home, about, date and name, in any state and under any
\* interleaving, leaves the counter and the card list unchanged.
C5_OtherRoutesPure ==
    [][\A t \in Threads :
          (pc[t] \in {"home", "about", "date", "name"} /\ pc'[t] # pc[t]) =>
              (counter' = counter /\ cards' = cards)]_vars

\* Requests to the other routes were served next to a count_views request
\* that had already raised the counter.
C5_Witness ==
    \E t, u \in Threads :
        /\ route[t] \in {"home", "about", "date", "name"}
        /\ pc[t] = "done"
        /\ route[u] = "count_views"
        /\ pc[u] = "cv_format"
        /\ counter > 0

\* C6: the card list is always the three records (Hola, Hello),
\* (Merci, Thanks), (Ciao, Bye) in that order, and that is the sequence the
\* homepage hands to the template.
C6_CardsFixed ==
    /\ cards = << [question |-> "Hola", answer |-> "Hello"],
                  [question |-> "Merci", answer |-> "Thanks"],
                  [question |-> "Ciao", answer |-> "Bye"] >>
    /\ \A t \in Threads :
          (route[t] = "home" /\ pc[t] = "done") =>
              /\ resp[t].template = "home.html"
              /\ Len(resp[t].context) = 3
              /\ resp[t].context[1] = [question |-> "Hola", answer |-> "Hello"]
              /\ resp[t].context[2] = [question |-> "Merci", answer |-> "Thanks"]
              /\ resp[t].context[3] = [question |-> "Ciao", answer |-> "Bye"]

\* The homepage has answered after count_views requests were served.
C6_Witness ==
    \E t \in Threads :
        /\ route[t] = "home"
        /\ pc[t] = "done"
        /\ completed > 0

\* C7: the greeting is "Hello ", the path segment unchanged, "!"; for
\* "World" it is "Hello World!", whatever the counter holds.
C7_GreetingEchoesName ==
    \A t \in Threads :
        (route[t] = "name" /\ pc[t] = "done") =>
            /\ resp[t].text = "Hello " \o arg[t] \o "!"
            /\ arg[t] = "World" => resp[t].text = "Hello World!"
            /\ Len(resp[t].text) = Len(arg[t]) + 7

\* /hello/World has answered in a state where the counter is not 0.
C7_Witness ==
    \E t \in Threads :
        /\ route[t] = "name"
        /\ pc[t] = "done"
        /\ arg[t] = "World"
        /\ resp[t].text = "Hello World!"
        /\ counter > 0

\* C8: about always returns the literal string
\* "This is a simple mini project using Flask basics.".
C8_AboutLiteral ==
    \A t \in Threads :
        (route[t] = "about" /\ pc[t] = "done") =>
            resp[t] = Text("This is a simple mini project using Flask basics.")

\* about has answered in a state where the counter is not 0.
C8_Witness ==
    \E t \in Threads :
        /\ route[t] = "about"
        /\ pc[t] = "done"
        /\ counter > 0

\* C9: the date response is "Current server time: " followed by a timestamp
\* read from the clock during the request: not earlier than the clock when
\* the request arrived, not later than the clock when the response goes out.
C9_TimestampWithinRequest ==
    \A t \in Threads :
        (route[t] = "date" /\ pc[t] = "done") =>
            /\ resp[t].text = "Current server time: " \o DateStr(ts[t])
            /\ SubSeq(resp[t].text, 1, 21) = "Current server time: "
            /\ TimeLeq(recv[t], ts[t])
            /\ TimeLeq(ts[t], clock)

\* A date request whose timestamp lies strictly between the clock reading at
\* its arrival and the clock reading when its response is ready.
C9_Witness ==
    \E t \in Threads :
        /\ route[t] = "date"
        /\ pc[t] = "done"
        /\ recv[t] # ts[t]
        /\ ts[t] # clock
        /\ resp[t].text = "Current server time: 1970-01-01 00:00:00.999999"

\* C10: the counter never exceeds the number of count_views requests
\* started, and the number a count_views request renders is at least 1 and
\* at most the number started when it reads the counter for its response.
C10_NeverOverCounts ==
    /\ [](counter <= started)
    /\ [][\A t \in Threads :
             (pc[t] = "cv_format" /\ pc'[t] = "done") =>
                 \E n \in 1..started :
                     resp'[t].text = "This page was viewed " \o ToString(n)
                                         \o " times."]_vars

\* A count_views request has rendered another request's increment too,
\* after an update was lost.
C10_Witness ==
    \E t \in Threads :
        /\ ViewsDone(t)
        /\ tmp[t] + 1 < counter
        /\ counter < started
        /\ resp[t].text = "This page was viewed 2 times."

====
